---------------------------- MODULE Spec2Model ----------------------------
(***************************************************************************)
(* A model of src/ocr.py: a command-line adapter that hands one image path *)
(* to an external OCR capability (PaddleOCR) and prints the recognised     *)
(* text lines as one line of JSON.                                         *)
(*                                                                         *)
(* Text is modelled as Python models it: a str is a sequence of code       *)
(* points (integers).  Command-line arguments are never looked into by the *)
(* program, so they are kept as atoms (TLA+ strings).  Python's sys.argv   *)
(* is 0-based and holds the program name first; here argv[1] is the        *)
(* program name and argv[2] is Python's sys.argv[1].                       *)
(*                                                                         *)
(* The OCR library is a black box: constructing it and calling predict     *)
(* each either raise or return, the library writes nothing to standard     *)
(* output, and a region result is a mapping with a "rec_texts" entry       *)
(* holding a sequence of str.  The library is assumed to be importable     *)
(* (line 1 of the script succeeds).                                        *)
(***************************************************************************)
EXTENDS Integers, Sequences, FiniteSets

VARIABLES
    argv,             \* sys.argv of the running process
    pc,               \* the statement the process is at
    img_path,         \* __main__'s img_path (a sequence: <<>> while unbound)
    ocr,              \* extract_text's ocr: <<>> or <<the keyword arguments>>
    result,           \* extract_text's result
    text_lines,       \* extract_text's text_lines
    text,             \* __main__'s text
    stdout,           \* the code points written to standard output
    stderr,           \* diagnostics written to the error stream
    exit_status,      \* the exit status; -1 while the process runs
    calls,            \* the calls made to the OCR library, in order
    backend_ctor,     \* what constructing PaddleOCR does: "unknown", "ok", "fail"
    backend_predict,  \* per path, what predict does, once it is known
    history           \* the invocations that have ended before this one

vars == <<argv, pc, img_path, ocr, result, text_lines, text, stdout, stderr,
          exit_status, calls, backend_ctor, backend_predict, history>>

-----------------------------------------------------------------------------
(* Bounds of the explored inputs. *)

MaxRegions == 2

MaxLines == 3

MaxExtraArgs == 1

-----------------------------------------------------------------------------
(* String literals of the script, as code points. *)

\* "error"
KeyError == <<101, 114, 114, 111, 114>>

\* "Image path missing"
MsgImagePathMissing ==
    <<73, 109, 97, 103, 101, 32, 112, 97, 116, 104, 32, 109, 105, 115, 115,
      105, 110, 103>>

\* "ocr_text"
KeyOcrText == <<111, 99, 114, 95, 116, 101, 120, 116>>

\* "\n", the separator of line 19 and print's line end
NL == <<10>>

-----------------------------------------------------------------------------
(* The inputs: argument vectors and what the OCR backend may return. *)

ProgName == "ocr.py"

Paths == {"", "a.png"}

ExtraArg == "x.png"

RECURSIVE Extras(_)
Extras(n) == IF n = 0 THEN <<>> ELSE <<ExtraArg>> \o Extras(n - 1)

Argvs ==
    {<<ProgName>>} \cup
    {<<ProgName, p>> \o Extras(n) : p \in Paths, n \in 0..MaxExtraArgs}

AllPaths == Paths \cup {ExtraArg}

\* Recognised lines: plain letters, the empty line, and a line holding a quote,
\* a backslash, a newline, a tab, a control character, DEL, a non-ASCII
\* character and a character outside the basic multilingual plane.
Texts ==
    { <<65>>, <<66>>, <<67>>, <<>>,
      <<34, 92, 10, 9, 1, 127, 233, 128512>> }

LineSeqs(n) == UNION {[1..k -> Texts] : k \in 0..n}

Regions(n) == {[rec_texts |-> t] : t \in LineSeqs(n)}

\* The region sequences of at most r regions holding at most l lines in all.
RECURSIVE ResultsUpTo(_, _)
ResultsUpTo(r, l) ==
    {<<>>} \cup
    (IF r = 0 THEN {}
     ELSE UNION { {<<reg>> \o rest :
                     rest \in ResultsUpTo(r - 1, l - Len(reg.rec_texts))} :
                  reg \in Regions(l) })

Results == ResultsUpTo(MaxRegions, MaxLines)

Unknown == [kind |-> "unknown"]

PredictRaises == [kind |-> "raise"]

PredictOutcomes == {PredictRaises} \cup {[kind |-> "ok", value |-> r] : r \in Results}

-----------------------------------------------------------------------------
(* json.dumps with its defaults (ensure_ascii, separators ", " and ": "). *)

HexDigit(d) == IF d < 10 THEN 48 + d ELSE 87 + d

\* '\\u{0:04x}'.format(n)
UEscape(n) ==
    <<92, 117, HexDigit((n \div 4096) % 16), HexDigit((n \div 256) % 16),
      HexDigit((n \div 16) % 16), HexDigit(n % 16)>>

\* What json.dumps writes for one character of a str.
EscapeChar(c) ==
    CASE c = 92 -> <<92, 92>>
      [] c = 34 -> <<92, 34>>
      [] c = 8  -> <<92, 98>>
      [] c = 12 -> <<92, 102>>
      [] c = 10 -> <<92, 110>>
      [] c = 13 -> <<92, 114>>
      [] c = 9  -> <<92, 116>>
      [] c >= 32 /\ c <= 126 /\ c # 92 /\ c # 34 -> <<c>>
      [] (c < 32 \/ c > 126) /\ c < 65536 /\ c \notin {8, 9, 10, 12, 13} ->
            UEscape(c)
      [] c >= 65536 ->
            UEscape(55296 + (((c - 65536) \div 1024) % 1024))
              \o UEscape(56320 + ((c - 65536) % 1024))

RECURSIVE EscapeAll(_)
EscapeAll(s) == IF s = <<>> THEN <<>> ELSE EscapeChar(Head(s)) \o EscapeAll(Tail(s))

\* A str put between quotes as it is, nothing escaped.
JsonQuoteRaw(s) == <<34>> \o s \o <<34>>

\* json.dumps of a str
JsonDumpsStr(s) == <<34>> \o EscapeAll(s) \o <<34>>

\* json.dumps of a dict with the single entry key: value
JsonDumps(key, value) ==
    <<123>> \o JsonDumpsStr(key) \o <<58, 32>> \o JsonDumpsStr(value) \o <<125>>

\* s written without a line end, as print(s, end="") would.
PrintNoLineEnd(s) == stdout \o s

\* print(s): standard output after s and a line end are written to it
PrintLine(s) == stdout \o s \o NL

-----------------------------------------------------------------------------
(* extract_text's pure parts. *)

\* for line in res["rec_texts"]: text_lines.append(line)
RECURSIVE AppendLines(_, _)
AppendLines(acc, lines) ==
    IF lines = <<>> THEN acc
    ELSE AppendLines(Append(acc, Head(lines)), Tail(lines))

\* for res in result: ...
RECURSIVE CollectLines(_, _)
CollectLines(acc, regions) ==
    IF regions = <<>> THEN acc
    ELSE CollectLines(AppendLines(acc, Head(regions).rec_texts), Tail(regions))

\* "\n".join(lines)
RECURSIVE JoinLines(_)
JoinLines(lines) ==
    IF lines = <<>> THEN <<>>
    ELSE IF Len(lines) = 1 THEN lines[1]
    ELSE lines[1] \o NL \o JoinLines(Tail(lines))

\* Keyword arguments that leave document unwarping on.
OcrOptionsUnwarping ==
    [ use_doc_orientation_classify |-> FALSE,
      use_doc_unwarping            |-> TRUE,
      use_textline_orientation     |-> FALSE ]

\* The keyword arguments of the PaddleOCR(...) call.
OcrOptions ==
    [ use_doc_orientation_classify |-> FALSE,
      use_doc_unwarping            |-> FALSE,
      use_textline_orientation     |-> FALSE ]

-----------------------------------------------------------------------------
(* The process. *)

Init ==
    /\ argv \in Argvs
    /\ pc = "main"
    /\ img_path = <<>>
    /\ ocr = <<>>
    /\ result = <<>>
    /\ text_lines = <<>>
    /\ text = <<>>
    /\ stdout = <<>>
    /\ stderr = <<>>
    /\ exit_status = -1
    /\ calls = <<>>
    /\ backend_ctor = "unknown"
    /\ backend_predict = [p \in AllPaths |-> Unknown]
    /\ history = <<>>

\* len(sys.argv) != 2: a test that also refuses further arguments.
ArgCountNotOne == Len(argv) # 2

\* len(sys.argv) < 2
ArgMissing == Len(argv) < 2

\* An exception nothing catches: the interpreter prints a traceback on the
\* error stream and the process ends with status 1.
Uncaught(exc) ==
    /\ stderr' = Append(stderr, exc)
    /\ exit_status' = 1
    /\ pc' = "exited"

\* Line 23 in a script that builds the OCR object before it looks at its
\* arguments.
PrintUsageAfterLoad ==
    /\ pc = "main"
    /\ ArgMissing
    /\ calls' = Append(calls, [op |-> "PaddleOCR", kwargs |-> OcrOptions])
    /\ stdout' = PrintLine(JsonDumps(KeyError, MsgImagePathMissing))
    /\ pc' = "sys_exit"
    /\ UNCHANGED <<argv, img_path, ocr, result, text_lines, text, stderr,
                   exit_status, backend_ctor, backend_predict, history>>

\* line 23: print(json.dumps({ "error": "Image path missing" }))
PrintUsage ==
    /\ pc = "main"
    /\ ArgMissing
    /\ stdout' = PrintLine(JsonDumps(KeyError, MsgImagePathMissing))
    /\ pc' = "sys_exit"
    /\ UNCHANGED <<argv, img_path, ocr, result, text_lines, text, stderr,
                   exit_status, calls, backend_ctor, backend_predict, history>>

\* sys.exit(0) in place of line 24.
SysExitZero ==
    /\ pc = "sys_exit"
    /\ exit_status' = 0
    /\ pc' = "exited"
    /\ UNCHANGED <<argv, img_path, ocr, result, text_lines, text, stdout,
                   stderr, calls, backend_ctor, backend_predict, history>>

\* line 24: sys.exit(1)
SysExit ==
    /\ pc = "sys_exit"
    /\ exit_status' = 1
    /\ pc' = "exited"
    /\ UNCHANGED <<argv, img_path, ocr, result, text_lines, text, stdout,
                   stderr, calls, backend_ctor, backend_predict, history>>

\* img_path = sys.argv[-1] in place of line 26.
ReadLastArg ==
    /\ pc = "main"
    /\ ~ArgMissing
    /\ img_path' = <<argv[Len(argv)]>>
    /\ pc' = "construct"
    /\ UNCHANGED <<argv, ocr, result, text_lines, text, stdout, stderr,
                   exit_status, calls, backend_ctor, backend_predict, history>>

\* line 26: img_path = sys.argv[1]
ReadPath ==
    /\ pc = "main"
    /\ ~ArgMissing
    /\ img_path' = <<argv[2]>>
    /\ pc' = "construct"
    /\ UNCHANGED <<argv, ocr, result, text_lines, text, stdout, stderr,
                   exit_status, calls, backend_ctor, backend_predict, history>>

\* lines 6-10: ocr = PaddleOCR(...), which returns
ConstructOk ==
    /\ pc = "construct"
    /\ backend_ctor \in {"unknown", "ok"}
    /\ backend_ctor' = "ok"
    /\ calls' = Append(calls, [op |-> "PaddleOCR", kwargs |-> OcrOptions])
    /\ ocr' = <<OcrOptions>>
    /\ pc' = "predict"
    /\ UNCHANGED <<argv, img_path, result, text_lines, text, stdout, stderr,
                   exit_status, backend_predict, history>>

\* Lines 6-10 in a script that catches the failure and reports it as it
\* reports a missing argument.
ConstructCaught ==
    /\ pc = "construct"
    /\ backend_ctor \in {"unknown", "fail"}
    /\ backend_ctor' = "fail"
    /\ calls' = Append(calls, [op |-> "PaddleOCR", kwargs |-> OcrOptions])
    /\ stdout' = PrintLine(JsonDumps(KeyError, MsgImagePathMissing))
    /\ exit_status' = 1
    /\ pc' = "exited"
    /\ UNCHANGED <<argv, img_path, ocr, result, text_lines, text, stderr,
                   backend_predict, history>>

\* lines 6-10: ocr = PaddleOCR(...), which raises
ConstructRaises ==
    /\ pc = "construct"
    /\ backend_ctor \in {"unknown", "fail"}
    /\ backend_ctor' = "fail"
    /\ calls' = Append(calls, [op |-> "PaddleOCR", kwargs |-> OcrOptions])
    /\ Uncaught("PaddleOCR")
    /\ UNCHANGED <<argv, img_path, ocr, result, text_lines, text, stdout,
                   backend_predict, history>>

\* What the backend answers for path p: what it answered before, if it was
\* asked before (the backend is deterministic), and anything otherwise.
Answers(p) ==
    IF backend_predict[p] = Unknown THEN PredictOutcomes ELSE {backend_predict[p]}

\* line 12: result = ocr.predict(img_path), which returns
PredictOk ==
    /\ pc = "predict"
    /\ \E o \in Answers(img_path[1]) :
          /\ o.kind = "ok"
          /\ backend_predict' = [backend_predict EXCEPT ![img_path[1]] = o]
          /\ result' = o.value
    /\ calls' = Append(calls, [op |-> "predict", path |-> img_path[1]])
    /\ pc' = "collect"
    /\ UNCHANGED <<argv, img_path, ocr, text_lines, text, stdout, stderr,
                   exit_status, backend_ctor, history>>

\* line 12: result = ocr.predict(img_path), which raises
PredictRaise ==
    /\ pc = "predict"
    /\ PredictRaises \in Answers(img_path[1])
    /\ backend_predict' = [backend_predict EXCEPT ![img_path[1]] = PredictRaises]
    /\ calls' = Append(calls, [op |-> "predict", path |-> img_path[1]])
    /\ Uncaught("predict")
    /\ UNCHANGED <<argv, img_path, ocr, result, text_lines, text, stdout,
                   backend_ctor, history>>

\* Lines 14-17 with text_lines = [] inside the outer loop: every region
\* starts the list again.
CollectLastRegion ==
    /\ pc = "collect"
    /\ text_lines' = IF result = <<>> THEN <<>>
                     ELSE CollectLines(<<>>, <<result[Len(result)]>>)
    /\ pc' = "return"
    /\ UNCHANGED <<argv, img_path, ocr, result, text, stdout, stderr,
                   exit_status, calls, backend_ctor, backend_predict, history>>

\* lines 14-17: text_lines = [] and the two loops
Collect ==
    /\ pc = "collect"
    /\ text_lines' = CollectLines(<<>>, result)
    /\ pc' = "return"
    /\ UNCHANGED <<argv, img_path, ocr, result, text, stdout, stderr,
                   exit_status, calls, backend_ctor, backend_predict, history>>

\* lines 19 and 27: text = the value extract_text returns
Return ==
    /\ pc = "return"
    /\ text' = JoinLines(text_lines)
    /\ pc' = "print"
    /\ UNCHANGED <<argv, img_path, ocr, result, text_lines, stdout, stderr,
                   exit_status, calls, backend_ctor, backend_predict, history>>

\* line 30: print(json.dumps({ "ocr_text": text }))
PrintResult ==
    /\ pc = "print"
    /\ stdout' = PrintLine(JsonDumps(KeyOcrText, text))
    /\ pc' = "end"
    /\ UNCHANGED <<argv, img_path, ocr, result, text_lines, text, stderr,
                   exit_status, calls, backend_ctor, backend_predict, history>>

\* The script ending with sys.exit(1).
FinishOne ==
    /\ pc = "end"
    /\ exit_status' = 1
    /\ pc' = "exited"
    /\ UNCHANGED <<argv, img_path, ocr, result, text_lines, text, stdout,
                   stderr, calls, backend_ctor, backend_predict, history>>

\* The script runs off its end: the interpreter exits with status 0.
Finish ==
    /\ pc = "end"
    /\ exit_status' = 0
    /\ pc' = "exited"
    /\ UNCHANGED <<argv, img_path, ocr, result, text_lines, text, stdout,
                   stderr, calls, backend_ctor, backend_predict, history>>

\* The first command-line argument, if any.
FirstArg(a) == IF Len(a) < 2 THEN <<>> ELSE <<a[2]>>

\* The caller runs the script once more, in a new process, against the same
\* backend and with the same first argument (or again with none): nothing of
\* the process that ended remains but what the caller saw of it.
Reinvoke ==
    /\ pc = "exited"
    /\ history = <<>>
    /\ history' = <<[ argv |-> argv, stdout |-> stdout, status |-> exit_status,
                      calls |-> calls ]>>
    /\ \E a \in Argvs : FirstArg(a) = FirstArg(argv) /\ argv' = a
    /\ pc' = "main"
    /\ img_path' = <<>>
    /\ ocr' = <<>>
    /\ result' = <<>>
    /\ text_lines' = <<>>
    /\ text' = <<>>
    /\ stdout' = <<>>
    /\ stderr' = <<>>
    /\ exit_status' = -1
    /\ calls' = <<>>
    /\ UNCHANGED <<backend_ctor, backend_predict>>

Next ==
    \/ PrintUsage
    \/ SysExit
    \/ ReadPath
    \/ ConstructOk
    \/ ConstructRaises
    \/ PredictOk
    \/ PredictRaise
    \/ Collect
    \/ Return
    \/ PrintResult
    \/ Finish

\* One invocation of the script.
Spec == Init /\ [][Next]_vars

\* Two invocations, one after the other.
SpecTwice == Init /\ [][Next \/ Reinvoke]_vars

-----------------------------------------------------------------------------
(* Reading standard output back, as the consumer of the script does: the   *)
(* lines of the stream, and JSON (RFC 8259) for an object with one member  *)
(* whose value is a string.  These are not part of the script.             *)

\* out is exactly one line: it ends with a line end and holds no other.
OneLine(out) ==
    /\ out # <<>>
    /\ out[Len(out)] = 10
    /\ \A i \in 1..(Len(out) - 1) : out[i] # 10

\* The line of a one-line output, without its line end.
LineOf(out) == SubSeq(out, 1, Len(out) - 1)

NoParse == [ok |-> FALSE, value |-> <<>>, next |-> 0]

HexValue(c) ==
    IF c >= 48 /\ c <= 57 THEN c - 48
    ELSE IF c >= 97 /\ c <= 102 THEN c - 87
    ELSE IF c >= 65 /\ c <= 70 THEN c - 55
    ELSE 0 - 1

\* The number the four hex digits at s[i..i+3] write, or -1.
Hex4At(s, i) ==
    IF i + 3 > Len(s) THEN 0 - 1
    ELSE LET a == HexValue(s[i])
             b == HexValue(s[i + 1])
             c == HexValue(s[i + 2])
             d == HexValue(s[i + 3])
         IN  IF a < 0 \/ b < 0 \/ c < 0 \/ d < 0 THEN 0 - 1
             ELSE a * 4096 + b * 256 + c * 16 + d

\* The character a two-character escape \e stands for, or -1.
SimpleEscape(e) ==
    CASE e = 34 -> 34
      [] e = 92 -> 92
      [] e = 47 -> 47
      [] e = 98 -> 8
      [] e = 102 -> 12
      [] e = 110 -> 10
      [] e = 114 -> 13
      [] e = 116 -> 9
      [] OTHER -> 0 - 1

\* Whether the \uXXXX at s[i], which writes the number u, and a \uYYYY after
\* it are a surrogate pair.
SurrogatePairAt(s, i, u) ==
    /\ u >= 55296
    /\ u <= 56319
    /\ i + 7 <= Len(s)
    /\ s[i + 6] = 92
    /\ s[i + 7] = 117
    /\ LET w == Hex4At(s, i + 8) IN w >= 56320 /\ w <= 57343

\* The rest of a JSON string whose opening quote has been read: the
\* characters it denotes, read into acc up to the closing quote.
RECURSIVE ReadChars(_, _, _)
ReadChars(s, i, acc) ==
    IF i > Len(s) THEN NoParse
    ELSE IF s[i] = 34 THEN [ok |-> TRUE, value |-> acc, next |-> i + 1]
    ELSE IF s[i] < 32 THEN NoParse
    ELSE IF s[i] # 92 THEN ReadChars(s, i + 1, Append(acc, s[i]))
    ELSE IF i + 1 > Len(s) THEN NoParse
    ELSE IF s[i + 1] # 117
         THEN LET e == SimpleEscape(s[i + 1])
              IN  IF e < 0 THEN NoParse ELSE ReadChars(s, i + 2, Append(acc, e))
    ELSE LET u == Hex4At(s, i + 2)
         IN  IF u < 0 THEN NoParse
             ELSE IF SurrogatePairAt(s, i, u)
                  THEN ReadChars(s, i + 12,
                                 Append(acc, 65536 + (u - 55296) * 1024
                                               + (Hex4At(s, i + 8) - 56320)))
             ELSE ReadChars(s, i + 6, Append(acc, u))

\* A JSON string starting at s[i].
ReadString(s, i) ==
    IF i > Len(s) \/ s[i] # 34 THEN NoParse ELSE ReadChars(s, i + 1, <<>>)

\* The first position at or after i that holds no JSON white space.
RECURSIVE SkipSpace(_, _)
SkipSpace(s, i) ==
    IF i <= Len(s) /\ s[i] \in {32, 9, 10, 13} THEN SkipSpace(s, i + 1) ELSE i

\* s read as a JSON object with one member whose value is a string.
ReadObject(s) ==
    LET i1 == SkipSpace(s, 1)
        k  == ReadString(s, SkipSpace(s, i1 + 1))
        i2 == SkipSpace(s, k.next)
        v  == ReadString(s, SkipSpace(s, i2 + 1))
        i3 == SkipSpace(s, v.next)
    IN  IF /\ i1 <= Len(s) /\ s[i1] = 123
           /\ k.ok
           /\ i2 <= Len(s) /\ s[i2] = 58
           /\ v.ok
           /\ i3 <= Len(s) /\ s[i3] = 125
           /\ SkipSpace(s, i3 + 1) = Len(s) + 1
        THEN [ok |-> TRUE, key |-> k.value, value |-> v.value]
        ELSE [ok |-> FALSE, key |-> <<>>, value |-> <<>>]

\* out is one line holding the Output Envelope {"ocr_text": <a string>}.
IsOutputEnvelope(out) ==
    /\ OneLine(out)
    /\ LET o == ReadObject(LineOf(out)) IN o.ok /\ o.key = KeyOcrText

\* {"error": "Image path missing"} and a line end
ErrorOutput ==
    <<123, 34, 101, 114, 114, 111, 114, 34, 58, 32, 34, 73, 109, 97, 103, 101,
      32, 112, 97, 116, 104, 32, 109, 105, 115, 115, 105, 110, 103, 34, 125,
      10>>

\* {"ocr_text": "A\nB\nC"} and a line end
ExampleOutput ==
    <<123, 34, 111, 99, 114, 95, 116, 101, 120, 116, 34, 58, 32, 34, 65, 92,
      110, 66, 92, 110, 67, 34, 125, 10>>

\* {"ocr_text": ""} and a line end
EmptyOutput ==
    <<123, 34, 111, 99, 114, 95, 116, 101, 120, 116, 34, 58, 32, 34, 34, 125,
      10>>

\* [{rec_texts: ["A", "B"]}, {rec_texts: ["C"]}]
ExampleResult ==
    << [rec_texts |-> << <<65>>, <<66>> >>], [rec_texts |-> << <<67>> >>] >>

(* What the backend did in this invocation. *)

CtorCalled == \E i \in DOMAIN calls : calls[i].op = "PaddleOCR"

PredictCalls == {i \in DOMAIN calls : calls[i].op = "predict"}

\* The OCR capability failed, in construction or in recognition.
OcrFailed ==
    \/ CtorCalled /\ backend_ctor = "fail"
    \/ \E i \in PredictCalls : backend_predict[calls[i].path] = PredictRaises

\* Recognition has returned region results.
Recognised ==
    \E i \in PredictCalls : backend_predict[calls[i].path].kind = "ok"

\* The region results recognition returned.
Recognition ==
    backend_predict[calls[CHOOSE i \in PredictCalls : TRUE].path].value

(* "The newline-joined concatenation of every text line of every region,   *)
(* in order", said of a string v by the places its characters hold.        *)

\* The lines of the region results res: <<i, j>> is line j of region i.
Slots(res) ==
    UNION { {<<i, j>> : j \in 1..Len(res[i].rec_texts)} : i \in 1..Len(res) }

Earlier(p, q) == p[1] < q[1] \/ (p[1] = q[1] /\ p[2] < q[2])

LineAt(res, p) == res[p[1]].rec_texts[p[2]]

\* The characters the lines at the places ps take, each with a separator.
RECURSIVE Room(_, _)
Room(res, ps) ==
    IF ps = {} THEN 0
    ELSE LET p == CHOOSE x \in ps : TRUE
         IN  Len(LineAt(res, p)) + 1 + Room(res, ps \ {p})

\* Where in the joined string the line at p starts, less one.
Offset(res, p) == Room(res, {q \in Slots(res) : Earlier(q, p)})

IsNewlineJoin(res, v) ==
    /\ Len(v) = Room(res, Slots(res)) - (IF Slots(res) = {} THEN 0 ELSE 1)
    /\ \A p \in Slots(res) :
          LET at == Offset(res, p)
              line == LineAt(res, p)
          IN  /\ \A c \in 1..Len(line) : v[at + c] = line[c]
              /\ (\E q \in Slots(res) : Earlier(p, q)) => v[at + Len(line) + 1] = 10

-----------------------------------------------------------------------------
(* The claims. *)

\* The process has ended.
Exited == pc = "exited"

\* C1: started with no image-path argument, the program writes exactly the
\* line {"error": "Image path missing"} to standard output, nothing else, and
\* then ends with exit status 1.
C1_MissingArgument ==
    ArgMissing =>
        /\ stdout \in {<<>>, ErrorOutput}
        /\ stdout = <<>> => pc = "main"
        /\ exit_status \in {0 - 1, 1}
        /\ Exited => stdout = ErrorOutput /\ exit_status = 1 /\ stderr = <<>>

C1_Witness == ArgMissing /\ Exited /\ stdout = ErrorOutput

\* C2: the value of ocr_text in the emitted Output Envelope is the
\* newline-joined concatenation of every text line of every region the backend
\* returned, in order; [[A,B],[C]] gives "A\nB\nC"; no region, or no line in
\* any region, gives the empty string.
C2_JoinedText ==
    (Recognised /\ stdout # <<>>) =>
        /\ OneLine(stdout)
        /\ LET o == ReadObject(LineOf(stdout))
           IN  o.ok /\ o.key = KeyOcrText /\ IsNewlineJoin(Recognition, o.value)
        /\ Recognition = ExampleResult => stdout = ExampleOutput
        /\ Slots(Recognition) = {} => stdout = EmptyOutput

C2_Witness ==
    /\ Exited
    /\ Recognised
    /\ Recognition = ExampleResult
    /\ stdout = ExampleOutput

\* C3 as stated: every invocation, whatever its outcome, writes exactly one
\* line of JSON to standard output, the Output Envelope or the Error Envelope.
C3_AlwaysOneLine ==
    Exited => /\ OneLine(stdout)
              /\ IsOutputEnvelope(stdout) \/ stdout = ErrorOutput

\* C3, amended: an invocation writes at most one line to standard output, and
\* a written line is the Output Envelope or the Error Envelope; an invocation
\* in which the OCR capability does not fail has written exactly one line
\* when it ends, and one in which it fails has written nothing.
C3_OneLineUnlessOcrFails ==
    /\ stdout # <<>> =>
          /\ OneLine(stdout)
          /\ IsOutputEnvelope(stdout) \/ stdout = ErrorOutput
    /\ (Exited /\ ~OcrFailed) => stdout # <<>>
    /\ OcrFailed => stdout = <<>>

C3_Witness ==
    /\ Exited
    /\ OcrFailed
    /\ PredictCalls = {}
    /\ stdout = <<>>
    /\ exit_status = 1

\* C4: with the argument present and the OCR capability succeeding, standard
\* output is exactly one line and that line is valid JSON, whatever the
\* recognised lines hold (empty lines, newlines, quotes, backslashes).
C4_OneLineOfJson ==
    (~ArgMissing /\ Recognised /\ pc \in {"end", "exited"}) =>
        /\ Cardinality({i \in DOMAIN stdout : stdout[i] = 10}) = 1
        /\ stdout[Len(stdout)] = 10
        /\ ReadObject(SubSeq(stdout, 1, Len(stdout) - 1)).ok

C4_Witness ==
    /\ Exited
    /\ Recognised
    /\ \E p \in Slots(Recognition) :
          {10, 34, 92} \subseteq
              {LineAt(Recognition, p)[c] : c \in DOMAIN LineAt(Recognition, p)}
    /\ \E p \in Slots(Recognition) : LineAt(Recognition, p) = <<>>

\* C5: when the OCR capability fails, in construction or in recognition, the
\* failure is not caught: the process ends with a non-zero exit status and
\* writes no JSON envelope to standard output; only a missing argument ever
\* produces the error envelope.
C5_OcrFailureUncaught ==
    /\ OcrFailed =>
          /\ Exited
          /\ exit_status # 0
          /\ stdout = <<>>
          /\ stderr # <<>>
    /\ (stdout # <<>> /\ ReadObject(LineOf(stdout)).key = KeyError) => ArgMissing

C5_Witness ==
    /\ Exited
    /\ PredictCalls # {}
    /\ OcrFailed
    /\ exit_status = 1

\* C6: in every invocation that reaches the OCR capability, whatever the
\* arguments, the capability is configured with exactly three options,
\* use_doc_orientation_classify, use_doc_unwarping and
\* use_textline_orientation, all false.
C6_FixedOptions ==
    /\ \A i \in DOMAIN calls :
          calls[i].op = "PaddleOCR" =>
              /\ DOMAIN calls[i].kwargs =
                     { "use_doc_orientation_classify", "use_doc_unwarping",
                       "use_textline_orientation" }
              /\ \A k \in DOMAIN calls[i].kwargs : calls[i].kwargs[k] = FALSE
    /\ PredictCalls # {} => calls[1].op = "PaddleOCR" /\ ocr = <<calls[1].kwargs>>

C6_Witness == PredictCalls # {} /\ Len(argv) > 2 /\ argv[2] = ""

\* C7: with the argument present and the OCR capability succeeding, the
\* process emits the Output Envelope and then ends with exit status 0; exit
\* status 0 is reached on that path only, and the Output Envelope is written
\* only after recognition has returned.
C7_SuccessExit ==
    /\ (Exited /\ ~ArgMissing /\ ~OcrFailed) => exit_status = 0
    /\ exit_status = 0 =>
          ~ArgMissing /\ Recognised /\ Exited /\ IsOutputEnvelope(stdout)
    /\ (stdout # <<>> /\ stdout # ErrorOutput) => Recognised
    /\ pc = "print" => Recognised /\ stdout = <<>>
    /\ ~Exited => ENABLED Next

C7_Witness == Exited /\ exit_status = 0 /\ Recognised /\ stdout # EmptyOutput

\* An invocation that ended before this one.
Earlier1 == history[1]

\* C8: two invocations with the same image path, against a backend that
\* answers the same for the same path, write the same standard output and end
\* with the same exit status.
C8_SameRunSameOutput ==
    (history # <<>> /\ Exited /\ FirstArg(Earlier1.argv) = FirstArg(argv)) =>
        /\ stdout = Earlier1.stdout
        /\ exit_status = Earlier1.status

C8_Witness ==
    /\ history # <<>>
    /\ Exited
    /\ ~ArgMissing
    /\ Earlier1.argv = argv
    /\ stdout = Earlier1.stdout
    /\ stdout \notin {<<>>, EmptyOutput}

\* C9: with the argument missing, the OCR capability is never constructed and
\* recognition is never called before the process ends with status 1; in every
\* run recognition is called at most once.
C9_NoOcrWithoutArgument ==
    /\ ArgMissing => calls = <<>> /\ ocr = <<>> /\ (Exited => exit_status = 1)
    /\ Cardinality(PredictCalls) <= 1

C9_Witness == ArgMissing /\ Exited /\ calls = <<>> /\ exit_status = 1

\* C10: with one or more arguments, an empty first argument included, the
\* path handed to the OCR capability is the first argument, further arguments
\* are ignored and no usage error is reported: the output is that of the
\* invocation with the first argument alone.
C10_FirstArgumentOnly ==
    /\ \A i \in PredictCalls : ~ArgMissing /\ calls[i].path = argv[2]
    /\ Len(argv) >= 2 =>
          /\ stdout # ErrorOutput
          /\ pc # "sys_exit"
          /\ pc \notin {"main", "construct"} => CtorCalled
          /\ img_path # <<>> => img_path = <<argv[2]>>
    /\ (history # <<>> /\ Exited /\ Len(argv) >= 2
          /\ Earlier1.argv = <<ProgName, argv[2]>>) =>
              /\ stdout = Earlier1.stdout
              /\ exit_status = Earlier1.status

C10_Witness ==
    /\ history # <<>>
    /\ Exited
    /\ Earlier1.argv = <<ProgName, "">>
    /\ Len(argv) > 2
    /\ \E i \in PredictCalls : calls[i].path = ""
    /\ IsOutputEnvelope(stdout)

====
